---- MODULE Spec2Model ----
(***************************************************************************)
(* A model of the trading_bot repository: the backtest of the signals      *)
(* file (backtest.py), the probability filter of the command-line viewer   *)
(* (cli_trading_bot.py), the feature aggregation (generate_features.py)    *)
(* and the orchestrator of the pipeline (run_all.py).                      *)
(*                                                                         *)
(* Numbers.  The programs compute in floating point.  The model computes   *)
(* exactly: every float is an exact fraction and the missing value is NaN. *)
(* NaN behaves as in the code: arithmetic on NaN gives NaN and every       *)
(* ordering comparison with NaN is false.  Dates are day numbers.          *)
(***************************************************************************)
EXTENDS Integers, Sequences, FiniteSets, TLC

VARIABLES
    program,            \* which script runs: "backtest", "cli", "features", "run_all"
    signals_file,       \* the latest signals_*.csv as read: [exists, cols, rows]
    HOLD_DAYS,          \* backtest.py configuration, fixed for a run
    pc,                 \* position of the running script
    df,                 \* the loaded signals table: [cols, rows]
    i,                  \* backtest.py: loop index of the walk (0-based)
    results,            \* backtest.py: the ledger, a sequence of trade records
    cumulative_return,  \* backtest.py: running compounded return
    profitable_trades,  \* backtest.py
    total_trades,       \* backtest.py
    summary,            \* backtest.py: avg_return, cumulative_pct, win_rate
    out_file,           \* file written by the script: [written, rows]
    error,              \* the exception that ended the run, or "none"
    min_prob,           \* cli_trading_bot.py: the prompted threshold
    raw_files,          \* generate_features.py: the raw input series
    price_df,           \* generate_features.py: main's price_df
    cot_df,             \* generate_features.py: main's cot_df
    aaii_df,            \* generate_features.py: main's aaii_df
    cot_features,       \* generate_features.py: main's cot_features
    aaii_features,      \* generate_features.py: main's aaii_features
    features,           \* generate_features.py: main's merged df
    config_file,        \* run_all.py: config.yaml on disk
    config,             \* run_all.py: main's start_date, end_date, min_prob
    started,            \* run_all.py: the scripts run_script has launched
    running,            \* run_all.py: the child subprocess.run waits for
    failed,             \* the scripts whose work has failed
    viz_args,           \* run_all.py: main's viz_args
    run_summary         \* run_summary.txt: [written, min_prob, date_range]

signalVars == <<signals_file, HOLD_DAYS, df, i, results, cumulative_return,
                profitable_trades, total_trades, summary, min_prob>>

featVars == <<raw_files, price_df, cot_df, aaii_df, cot_features,
              aaii_features, features>>

pipeVars == <<config_file, config, started, running, failed, viz_args,
              run_summary>>

vars == <<program, pc, out_file, error, signalVars, featVars, pipeVars>>

-----------------------------------------------------------------------------
(* Bounds of the model.                                                    *)

MaxLen == 4         \* longest signals table
MaxHold == 2        \* largest holding period tried besides the default
MaxDatedLen == 3    \* longest signals table with arbitrary dates

-----------------------------------------------------------------------------
(* Numbers.  A float is an exact fraction [n, d] with d > 0 in lowest      *)
(* terms; the missing value NaN is the fraction 0/0.                       *)

NaN == [n |-> 0, d |-> 0]

Abs(x) == IF x < 0 THEN -x ELSE x

RECURSIVE GCD(_, _)
GCD(a, b) == IF b = 0 THEN a ELSE GCD(b, a % b)

Q(n, d) ==
    LET g == GCD(Abs(n), Abs(d))
        s == IF d < 0 THEN -1 ELSE 1
    IN  [n |-> s * (n \div g), d |-> s * (d \div g)]

\* pd.isna(x)
IsNa(x) == x = NaN

\* x < y on floats: false when either side is NaN
Lt(x, y) == x # NaN /\ y # NaN /\ x.n * y.d < y.n * x.d

\* x >= y on floats: false when either side is NaN
Ge(x, y) == x # NaN /\ y # NaN /\ x.n * y.d >= y.n * x.d

\* x == y on floats: false when either side is NaN
Eq(x, y) == x # NaN /\ y # NaN /\ x = y

QAdd(a, b) == IF a = NaN \/ b = NaN THEN NaN ELSE Q(a.n * b.d + b.n * a.d, a.d * b.d)
QNeg(a)    == IF a = NaN THEN NaN ELSE Q(-a.n, a.d)
QSub(a, b) == QAdd(a, QNeg(b))
QMul(a, b) == IF a = NaN \/ b = NaN THEN NaN ELSE Q(a.n * b.n, a.d * b.d)
\* a / b for b # 0 (prices are positive)
QDiv(a, b) == IF a = NaN \/ b = NaN THEN NaN ELSE Q(a.n * b.d, a.d * b.n)

-----------------------------------------------------------------------------
(* Exact fractions of unbounded size.  The compounded return and the sum   *)
(* of the returns outgrow 32 bits, so their numerator and denominator are  *)
(* held as residues modulo pairwise coprime primes (Chinese remainder      *)
(* representation): +, - and * act residue by residue and are exact as     *)
(* long as the integers stay below the product of the primes (> 10^70).    *)

Primes == <<46337, 46327, 46309, 46307, 46301, 46279, 46273, 46271,
            46261, 46237, 46229, 46219, 46199, 46187, 46183, 46181>>

Big(x) == [k \in 1..Len(Primes) |-> x % Primes[k]]
BigAdd(a, b) == [k \in 1..Len(Primes) |-> (a[k] + b[k]) % Primes[k]]
BigSub(a, b) == [k \in 1..Len(Primes) |-> (a[k] - b[k]) % Primes[k]]
BigMul(a, b) == [k \in 1..Len(Primes) |-> (a[k] * b[k]) % Primes[k]]

BQ(n, d) == [n |-> Big(n), d |-> Big(d)]
ToBQ(q) == BQ(q.n, q.d)

BNaN == BQ(0, 0)            \* NaN
DivByZero == BQ(1, 0)       \* the outcome of a division that raises

BQAdd(a, b) ==
    IF a = BNaN \/ b = BNaN THEN BNaN
    ELSE [n |-> BigAdd(BigMul(a.n, b.d), BigMul(b.n, a.d)), d |-> BigMul(a.d, b.d)]
BQSub(a, b) ==
    IF a = BNaN \/ b = BNaN THEN BNaN
    ELSE [n |-> BigSub(BigMul(a.n, b.d), BigMul(b.n, a.d)), d |-> BigMul(a.d, b.d)]
\* a raised division ends the expression it is part of
BQMul(a, b) ==
    IF a = DivByZero \/ b = DivByZero THEN DivByZero
    ELSE IF a = BNaN \/ b = BNaN THEN BNaN
    ELSE [n |-> BigMul(a.n, b.n), d |-> BigMul(a.d, b.d)]
\* a / k for an integer k: raises ZeroDivisionError when k = 0
BQDivInt(a, k) ==
    IF k = 0 THEN DivByZero
    ELSE IF a = BNaN THEN BNaN
    ELSE [n |-> a.n, d |-> BigMul(a.d, Big(k))]

\* the same value: both NaN (missing), or equal as fractions
BQSame(a, b) ==
    IF a = BNaN \/ b = BNaN THEN a = b
    ELSE BigMul(a.n, b.d) = BigMul(b.n, a.d)

-----------------------------------------------------------------------------
(* backtest.py: configuration.                                             *)

PROBABILITY_THRESHOLD == Q(70, 100)
HOLD_DAYS_DEFAULT == 5
TRANSACTION_COST == Q(1, 1000)

\* The holding periods the model runs with: the file's value and small
\* ones, under which short tables reach every case of the walk.
HoldDaysValues == (1..MaxHold) \cup {HOLD_DAYS_DEFAULT}

-----------------------------------------------------------------------------
(* The signals file read by backtest.py and cli_trading_bot.py.            *)

Columns == {"date", "Close", "prediction", "probability"}

CloseValues == {NaN, Q(900, 1), Q(1000, 1), Q(1001, 1), Q(1100, 1)}
PredictionValues == {NaN, Q(0, 1), Q(1, 1)}
ProbabilityValues == {NaN, Q(60, 100), Q(70, 100)}

\* The reference row, and the rows that differ from it in at most one field.
RefRow == [Close |-> Q(1000, 1), prediction |-> Q(1, 1), probability |-> Q(70, 100)]
RowValues ==
    {[RefRow EXCEPT !.Close = c] : c \in CloseValues}
    \cup {[RefRow EXCEPT !.prediction = p] : p \in PredictionValues}
    \cup {[RefRow EXCEPT !.probability = p] : p \in ProbabilityValues}

\* A file row dated d.  The slot of a column the file does not have holds a
\* filler that no step reads: every read is guarded by the column's presence.
FileRow(r, d, cols) ==
    [date        |-> IF "date" \in cols THEN d ELSE 0,
     Close       |-> IF "Close" \in cols THEN r.Close ELSE NaN,
     prediction  |-> IF "prediction" \in cols THEN r.prediction ELSE NaN,
     probability |-> IF "probability" \in cols THEN r.probability ELSE NaN]

\* The files have every column, or lack one of the columns the walk reads.
ColumnChoices == {Columns} \cup {Columns \ {c} : c \in Columns \ {"date"}}

\* The file of the rows f[1], ..., f[n], dated 1..n in file order.
FileOf(n, cols, f) ==
    [exists |-> TRUE, cols |-> cols,
     rows |-> [k \in 1..n |-> FileRow(f[k], k, cols)]]

NoSignalsFile == [exists |-> FALSE, cols |-> {}, rows |-> <<>>]

\* What glob and pd.read_csv can return: no file, or one of the files.
IsFile(file) ==
    \/ file = NoSignalsFile
    \/ \E n \in 0..MaxLen, cols \in ColumnChoices :
         \E f \in [1..n -> RowValues] : file = FileOf(n, cols, f)

\* The files whose rows carry any dates of 1..n: out of order or repeated.
DatedRowValues ==
    {RefRow, [RefRow EXCEPT !.Close = Q(1100, 1)],
     [RefRow EXCEPT !.probability = Q(60, 100)]}

DatedFileOf(n, f, dates) ==
    [exists |-> TRUE, cols |-> Columns,
     rows |-> [k \in 1..n |-> FileRow(f[k], dates[k], Columns)]]

IsDatedFile(file) ==
    \E n \in 0..MaxDatedLen :
        \E f \in [1..n -> DatedRowValues], dates \in [1..n -> 1..n] :
            file = DatedFileOf(n, f, dates)

EmptyTable == [cols |-> {}, rows |-> <<>>]
NoOutput == [written |-> FALSE, rows |-> <<>>]

-----------------------------------------------------------------------------
(* backtest.py: load_latest_signals.                                       *)

\* the rows are in ascending order of date, equal dates allowed
IsSortedByDate(s) == \A k \in 1..(Len(s) - 1) : s[k].date <= s[k + 1].date

\* two rows have the same date
RepeatsDate(s) == \E j, k \in 1..Len(s) : j # k /\ s[j].date = s[k].date

\* Stable insertion into a date-sorted sequence.
RECURSIVE InsertByDate(_, _)
InsertByDate(s, r) ==
    IF s = <<>> THEN <<r>>
    ELSE IF s[Len(s)].date <= r.date THEN Append(s, r)
    ELSE Append(InsertByDate(SubSeq(s, 1, Len(s) - 1), r), s[Len(s)])

\* sort_values("date") of rows with distinct dates
RECURSIVE SortByDate(_)
SortByDate(s) ==
    IF s = <<>> THEN <<>>
    ELSE InsertByDate(SortByDate(SubSeq(s, 1, Len(s) - 1)), s[Len(s)])

\* df.sort_values("date").reset_index(drop=True): the rows in ascending
\* order of date.  The default sort is not stable, so rows of equal date
\* come out in any order.
SortOutcomes(s) ==
    IF ~RepeatsDate(s) THEN {SortByDate(s)}
    ELSE {t \in {[k \in 1..Len(s) |-> s[p[k]]] : p \in Permutations(1..Len(s))} :
             IsSortedByDate(t)}

\* load_latest_signals and the call of it in main; the latest file of the
\* signals directory is one whose rows are dated 1, 2, ... in file order,
\* or (dated) one whose rows carry any dates
LoadSignals(dated) ==
    /\ program = "backtest"
    /\ pc = "load"
    /\ IF dated THEN IsDatedFile(signals_file') ELSE IsFile(signals_file')
    /\ LET file == signals_file'
       IN  IF ~file.exists
           THEN /\ pc' = "error"
                /\ error' = "No signals files found."
                /\ df' = df
           ELSE IF "date" \notin file.cols
           THEN /\ pc' = "error"
                /\ error' = "KeyError: date"
                /\ df' = df
           ELSE /\ pc' = "walk"
                /\ error' = error
                /\ \E sorted \in SortOutcomes(file.rows) :
                       df' = [cols |-> file.cols, rows |-> sorted]
    /\ UNCHANGED <<pipeVars, program, HOLD_DAYS, i, results,
                   cumulative_return, profitable_trades, total_trades,
                   summary, out_file, min_prob, featVars>>

\* the load of a file whose rows are dated 1, 2, ... in file order
LoadLatestSignals == LoadSignals(FALSE)

-----------------------------------------------------------------------------
(* backtest.py: main, the walk (lines 39-76).                              *)

\* WalkRange with the last row of the range left out
WalkRangeShort(length, hold) == 0 .. (length - hold - 2)

\* range(len(df) - HOLD_DAYS): the row indices the walk visits (0-based)
WalkRange(length, hold) == 0 .. (length - hold - 1)

\* Skips with the comparison turned around
SkipsAbove(row, t) == IsNa(row.prediction) \/ Lt(t, row.probability)

\* line 43: the test that skips a row, at threshold t
Skips(row, t) == IsNa(row.prediction) \/ Lt(row.probability, t)

\* The column whose lookup raises KeyError in the body for this row, or
\* "none": the body reads row["prediction"] first, row["probability"] only
\* when the prediction is present, and Close only for a row that is not
\* skipped.
KeyErrorAt(row, cols, t) ==
    IF "prediction" \notin cols THEN "prediction"
    ELSE IF IsNa(row.prediction) THEN "none"
    ELSE IF "probability" \notin cols THEN "probability"
    ELSE IF Lt(row.probability, t) THEN "none"
    ELSE IF "Close" \notin cols THEN "Close"
    ELSE "none"

\* TradeReturn with the cost deducted before the bearish negation
TradeReturnCostFirst(entry_close, exit_close, prediction) ==
    LET ret == QSub(QDiv(QSub(exit_close, entry_close), entry_close),
                    TRANSACTION_COST)
    IN  IF Eq(prediction, Q(0, 1)) THEN QNeg(ret) ELSE ret

\* lines 50-57: the return of a trade
TradeReturn(entry_close, exit_close, prediction) ==
    LET ret == QDiv(QSub(exit_close, entry_close), entry_close)
        directed == IF Eq(prediction, Q(0, 1)) THEN QNeg(ret) ELSE ret
    IN  QSub(directed, TRANSACTION_COST)

\* Compound adding the return instead of compounding it
CompoundAdditive(cumulative, ret) == BQAdd(cumulative, ToBQ(ret))

\* line 60: cumulative_return *= (1 + ret)
Compound(cumulative, ret) == BQMul(cumulative, BQAdd(BQ(1, 1), ToBQ(ret)))

\* IsProfitable counting a zero return as a win
IsProfitableOrFlat(ret) == Ge(ret, Q(0, 1))

\* line 63: ret > 0
IsProfitable(ret) == Lt(Q(0, 1), ret)

\* lines 68-76
TradeRecord(row, exit_row, ret) ==
    [entry_date  |-> row.date,
     exit_date   |-> exit_row.date,
     prediction  |-> row.prediction,
     probability |-> row.probability,
     entry_close |-> row.Close,
     exit_close  |-> exit_row.Close,
     return_pct  |-> QMul(ret, Q(100, 1))]

\* ExitIndex taking the next row whatever the holding period
ExitIndexNextRow(entry, hold) == entry + 1

\* line 47: df.iloc[i + HOLD_DAYS], the position of the exit row (0-based)
ExitIndex(entry, hold) == entry + hold

\* One iteration of the loop, for row i.
WalkRow ==
    /\ program = "backtest"
    /\ pc = "walk"
    /\ i \in WalkRange(Len(df.rows), HOLD_DAYS)
    /\ LET row == df.rows[i + 1]
           exit_row == df.rows[ExitIndex(i, HOLD_DAYS) + 1]
           missing == KeyErrorAt(row, df.cols, PROBABILITY_THRESHOLD)
           ret == TradeReturn(row.Close, exit_row.Close, row.prediction)
       IN  IF missing # "none"
           THEN /\ pc' = "error"
                /\ error' = "KeyError: " \o missing
                /\ UNCHANGED <<i, results, cumulative_return,
                               profitable_trades, total_trades>>
           ELSE IF Skips(row, PROBABILITY_THRESHOLD)
           THEN /\ i' = i + 1
                /\ UNCHANGED <<pc, error, results, cumulative_return,
                               profitable_trades, total_trades>>
           ELSE /\ i' = i + 1
                /\ cumulative_return' = Compound(cumulative_return, ret)
                /\ profitable_trades' =
                       IF IsProfitable(ret) THEN profitable_trades + 1
                       ELSE profitable_trades
                /\ total_trades' = total_trades + 1
                /\ results' = Append(results, TradeRecord(row, exit_row, ret))
                /\ UNCHANGED <<pc, error>>
    /\ UNCHANGED <<pipeVars, program, signals_file, HOLD_DAYS, df, summary, out_file,
                   min_prob, featVars>>

-----------------------------------------------------------------------------
(* backtest.py: main, the summary and the ledger file (lines 78-95).       *)

Zero == BQ(0, 1)

\* sum(r["return_pct"] for r in results): 0 + r1 + r2 + ...
RECURSIVE SumReturnPct(_)
SumReturnPct(rs) ==
    IF rs = <<>> THEN Zero
    ELSE BQAdd(SumReturnPct(SubSeq(rs, 1, Len(rs) - 1)),
               ToBQ(rs[Len(rs)].return_pct))

\* line 79
AvgReturn(rs) ==
    IF rs # <<>> THEN BQDivInt(SumReturnPct(rs), Len(rs)) ELSE Zero

\* line 80
CumulativePct(cumulative, rs) ==
    IF rs # <<>> THEN BQMul(BQSub(cumulative, BQ(1, 1)), BQ(100, 1)) ELSE Zero

\* WinRate without the guard on total_trades
WinRateUnguarded(profitable, total) ==
    BQMul(BQDivInt(BQ(profitable, 1), total), BQ(100, 1))

\* line 81
WinRate(profitable, total) ==
    IF total > 0 THEN BQMul(BQDivInt(BQ(profitable, 1), total), BQ(100, 1))
    ELSE Zero

NoSummary == [avg_return |-> BNaN, cumulative_pct |-> BNaN, win_rate |-> BNaN]

\* The loop is over: compute and print the summary.
Summarize ==
    /\ program = "backtest"
    /\ pc = "walk"
    /\ i \notin WalkRange(Len(df.rows), HOLD_DAYS)
    /\ LET s == [avg_return     |-> AvgReturn(results),
                 cumulative_pct |-> CumulativePct(cumulative_return, results),
                 win_rate       |-> WinRate(profitable_trades, total_trades)]
       IN  IF DivByZero \in {s.avg_return, s.cumulative_pct, s.win_rate}
           THEN /\ pc' = "error"
                /\ error' = "ZeroDivisionError"
                /\ summary' = summary
           ELSE /\ pc' = "save"
                /\ error' = error
                /\ summary' = s
    /\ UNCHANGED <<pipeVars, program, signals_file, HOLD_DAYS, df, i, results,
                   cumulative_return, profitable_trades, total_trades,
                   out_file, min_prob, featVars>>

\* pd.DataFrame(results).to_csv(out_path)
SaveResults ==
    /\ program = "backtest"
    /\ pc = "save"
    /\ out_file' = [written |-> TRUE, rows |-> results]
    /\ pc' = "done"
    /\ UNCHANGED <<pipeVars, program, error, signalVars, featVars>>

-----------------------------------------------------------------------------
(* cli_trading_bot.py: main up to the export of the filtered signals       *)
(* (lines 30-63).  The table display and the detail prompt that follow     *)
(* change no state the model holds.                                        *)

NaT == 0                    \* an unparsable date
Blank == 0                  \* an empty answer to the minimum-date prompt

MinProbValues == {Q(50, 100), Q(70, 100), Q(80, 100)}
MinDateValues == {Blank, 2}

\* df[df["date"] >= min_date], applied when the answer is not blank
DateFilter(rows, min_date) ==
    IF min_date # Blank
    THEN SelectSeq(rows, LAMBDA r : r.date >= min_date)
    ELSE rows

\* df[df["probability"] >= min_prob]
ProbabilityFilter(rows, t) == SelectSeq(rows, LAMBDA r : Ge(r.probability, t))

\* Stable insertion into a sequence sorted by probability, descending.
RECURSIVE InsertByProbability(_, _)
InsertByProbability(s, r) ==
    IF s = <<>> THEN <<r>>
    ELSE IF Ge(s[Len(s)].probability, r.probability) THEN Append(s, r)
    ELSE Append(InsertByProbability(SubSeq(s, 1, Len(s) - 1), r), s[Len(s)])

\* df.sort_values("probability", ascending=False), on rows without NaN
RECURSIVE SortByProbability(_)
SortByProbability(s) ==
    IF s = <<>> THEN <<>>
    ELSE InsertByProbability(SortByProbability(SubSeq(s, 1, Len(s) - 1)), s[Len(s)])

\* lines 31-35
CliLoad ==
    /\ program = "cli"
    /\ pc = "load"
    /\ IsFile(signals_file')
    /\ LET file == signals_file'
       IN  IF ~file.exists
           THEN /\ pc' = "error"
                /\ error' = "exit(1)"
                /\ df' = df
           ELSE IF "date" \notin file.cols
           THEN /\ pc' = "error"
                /\ error' = "KeyError: date"
                /\ df' = df
           ELSE /\ pc' = "prompt"
                /\ error' = error
                /\ df' = [cols |-> file.cols,
                          rows |-> SelectSeq(file.rows, LAMBDA r : r.date # NaT)]
    /\ UNCHANGED <<pipeVars, program, HOLD_DAYS, i, results,
                   cumulative_return, profitable_trades, total_trades,
                   summary, out_file, min_prob, featVars>>

\* lines 38-53: the two prompts, the two filters, the sort
CliFilter ==
    /\ program = "cli"
    /\ pc = "prompt"
    /\ \E mp \in MinProbValues, md \in MinDateValues :
         LET kept == ProbabilityFilter(DateFilter(df.rows, md), mp)
         IN  /\ min_prob' = mp
             /\ IF "probability" \notin df.cols
                THEN /\ pc' = "error"
                     /\ error' = "KeyError: probability"
                     /\ df' = [df EXCEPT !.rows = DateFilter(df.rows, md)]
                ELSE IF kept = <<>>
                THEN /\ pc' = "done"
                     /\ error' = error
                     /\ df' = [df EXCEPT !.rows = kept]
                ELSE /\ pc' = "export"
                     /\ error' = error
                     /\ df' = [df EXCEPT !.rows = SortByProbability(kept)]
    /\ UNCHANGED <<pipeVars, program, signals_file, HOLD_DAYS, i, results,
                   cumulative_return, profitable_trades, total_trades,
                   summary, out_file, featVars>>

\* lines 59-63
CliExport ==
    /\ program = "cli"
    /\ pc = "export"
    /\ out_file' = [written |-> TRUE, rows |-> df.rows]
    /\ pc' = "done"
    /\ UNCHANGED <<pipeVars, program, error, signalVars, featVars>>

-----------------------------------------------------------------------------
(* generate_features.py: the raw input series.                             *)

NoSeries == [exists |-> FALSE, cols |-> {}, rows |-> <<>>]

\* Close of the price series on date d
PriceClose(d) == Q(100 + ((d * d) % 7), 1)

\* SPY_*.csv as load_price_data returns it: n rows dated 1..n, in ascending
\* or descending file order, the Close of one date (gap, 0 for none) missing.
PriceSeries(n, gap, descending) ==
    [exists |-> TRUE, cols |-> {"date", "Close"},
     rows |-> [k \in 1..n |->
                 LET d == IF descending THEN n + 1 - k ELSE k
                 IN  [date |-> d,
                      Close |-> IF d = gap THEN NaN ELSE PriceClose(d)]]]

PriceInputs(maxlen) ==
    {PriceSeries(n, gap, desc) :
        n \in 0..maxlen, gap \in 0..maxlen, desc \in BOOLEAN}

\* Rows of COT_*.csv: report dates in and out of the price calendar (day 99
\* is in no price series), for two S&P markets and for another market.
CotRowValues ==
    {[Report_Date |-> d,
      Market_and_Exchange_Names |-> m,
      Prod_Merc_Positions_Long_All |-> Q(50 + d, 1),
      Prod_Merc_Positions_Short_All |-> Q(IF m = "S&P 500" THEN 20 ELSE 70, 1)] :
        d \in {1, 99}, m \in {"S&P 500", "E-MINI S&P 500", "NASDAQ"}}

CotInputs(maxlen) ==
    {[exists |-> TRUE,
      cols |-> {"Report_Date", "Market_and_Exchange_Names",
                "Prod_Merc_Positions_Long_All", "Prod_Merc_Positions_Short_All"},
      rows |-> rows] :
        rows \in UNION {[1..n -> CotRowValues] : n \in 0..maxlen}}
    \cup {NoSeries}

\* Rows of AAII_sentiment_*.csv
AaiiRowValues ==
    {[date |-> d, bullish |-> Q(40 + d, 1), bearish |-> Q(30, 1),
      neutral |-> Q(30 - d, 1)] : d \in {1, 2}}
    \cup {[date |-> 99, bullish |-> Q(25, 1), bearish |-> Q(50, 1),
           neutral |-> Q(25, 1)]}

AaiiInputs(maxlen) ==
    {[exists |-> TRUE, cols |-> {"date", "bullish", "bearish", "neutral"},
      rows |-> rows] :
        rows \in UNION {[1..n -> AaiiRowValues] : n \in 0..maxlen}}

MaxPriceLen == 21   \* longest price series of the rolling-window inputs
MaxMergeLen == 2    \* longest price series of the merge inputs
MaxCot == 2         \* longest positioning series of the merge inputs
MaxAaii == 1        \* longest sentiment series of the merge inputs

\* One auxiliary row each, on the first date.
PlainCot ==
    [exists |-> TRUE,
     cols |-> {"Report_Date", "Market_and_Exchange_Names",
               "Prod_Merc_Positions_Long_All", "Prod_Merc_Positions_Short_All"},
     rows |-> <<[Report_Date |-> 1,
                 Market_and_Exchange_Names |-> "S&P 500",
                 Prod_Merc_Positions_Long_All |-> Q(51, 1),
                 Prod_Merc_Positions_Short_All |-> Q(20, 1)]>>]
PlainAaii ==
    [exists |-> TRUE, cols |-> {"date", "bullish", "bearish", "neutral"},
     rows |-> <<[date |-> 1, bullish |-> Q(41, 1), bearish |-> Q(30, 1),
                 neutral |-> Q(29, 1)]>>]

\* The inputs of a run: long price series beside plain auxiliary series
\* (the rolling windows), or short price series beside every auxiliary
\* series (the merge).
IsFeatureInput(raw) ==
    \/ \E p \in PriceInputs(MaxPriceLen) :
         raw = [price |-> p, cot |-> PlainCot, aaii |-> PlainAaii]
    \/ \E p \in PriceInputs(MaxMergeLen), c \in CotInputs(MaxCot),
          a \in AaiiInputs(MaxAaii) :
         raw = [price |-> p, cot |-> c, aaii |-> a]

-----------------------------------------------------------------------------
(* generate_features.py: the loaders (lines 29-105).                       *)

\* load_price_data: rows without a date are dropped
LoadPriceData(file) ==
    [cols |-> file.cols, rows |-> SelectSeq(file.rows, LAMBDA r : r.date # NaT)]

\* "S&P" in the market name
IsSpx(r) == r.Market_and_Exchange_Names \in {"S&P 500", "E-MINI S&P 500"}

\* load_cot_data: the S&P rows when the column is there and some row matches
LoadCotData(file) ==
    LET spx == SelectSeq(file.rows, IsSpx)
    IN  [cols |-> file.cols,
         rows |-> IF "Market_and_Exchange_Names" \in file.cols /\ spx # <<>>
                  THEN spx ELSE file.rows]

\* load_aaii_data: rows without a date are dropped
LoadAaiiData(file) ==
    [cols |-> file.cols, rows |-> SelectSeq(file.rows, LAMBDA r : r.date # NaT)]

-----------------------------------------------------------------------------
(* generate_features.py: compute_price_features (lines 108-115).           *)

WINDOW_MA_10 == 10
WINDOW_MA_20 == 20
WINDOW_VOLATILITY == 10

RECURSIVE SumQ(_)
SumQ(xs) == IF xs = <<>> THEN Q(0, 1) ELSE QAdd(SumQ(Tail(xs)), Head(xs))

\* The trailing window of w rows ending at row k; rolling(window=w) sets
\* min_periods = w, so the statistic is NaN until w rows exist and whenever
\* a value of the window is NaN.
WindowAt(xs, k, w) == SubSeq(xs, k - w + 1, k)
WindowFull(xs, k, w) ==
    k >= w /\ \A j \in (k - w + 1)..k : ~IsNa(xs[j])

\* RollingMean over the rows there are (min_periods = 1)
RollingMeanPartial(xs, k, w) ==
    LET from == IF k >= w THEN k - w + 1 ELSE 1
    IN  IF \A j \in from..k : ~IsNa(xs[j])
        THEN QDiv(SumQ(SubSeq(xs, from, k)), Q(k - from + 1, 1))
        ELSE NaN

\* Series.rolling(window=w).mean()
RollingMean(xs, k, w) ==
    IF WindowFull(xs, k, w) THEN QDiv(SumQ(WindowAt(xs, k, w)), Q(w, 1)) ELSE NaN

\* the square root of v, kept exact
Sqrt(v) == [radicand |-> v]

\* Series.rolling(window=w).std(): the sample standard deviation (ddof = 1)
RollingStd(xs, k, w) ==
    IF WindowFull(xs, k, w)
    THEN LET win == WindowAt(xs, k, w)
             mean == QDiv(SumQ(win), Q(w, 1))
             sq == [j \in 1..w |-> QMul(QSub(win[j], mean), QSub(win[j], mean))]
         IN  Sqrt(QDiv(SumQ(sq), Q(w - 1, 1)))
    ELSE NaN

\* the last value present at or before row k (pct_change pads forward)
RECURSIVE Padded(_, _)
Padded(xs, k) ==
    IF k = 0 THEN NaN
    ELSE IF ~IsNa(xs[k]) THEN xs[k]
    ELSE Padded(xs, k - 1)

\* Series.pct_change(), with the library's default forward fill
PctChange(xs, k) ==
    IF k = 1 THEN NaN
    ELSE QSub(QDiv(Padded(xs, k), Padded(xs, k - 1)), Q(1, 1))

\* compute_price_features: a sorted copy with the four feature columns
ComputePriceFeatures(t) ==
    LET sorted == SortByDate(t.rows)
        close == [k \in 1..Len(sorted) |-> sorted[k].Close]
    IN  [cols |-> t.cols \cup {"return_1d", "ma_10", "ma_20", "volatility_10d"},
         rows |-> [k \in 1..Len(sorted) |->
                     [date           |-> sorted[k].date,
                      Close          |-> sorted[k].Close,
                      return_1d      |-> PctChange(close, k),
                      ma_10          |-> RollingMean(close, k, WINDOW_MA_10),
                      ma_20          |-> RollingMean(close, k, WINDOW_MA_20),
                      volatility_10d |-> RollingStd(close, k, WINDOW_VOLATILITY)]]]

-----------------------------------------------------------------------------
(* generate_features.py: compute_cot_features, compute_aaii_features       *)
(* (lines 118-132).  Both add a column to the table they are given.        *)

NetCommercial(r) ==
    QSub(r.Prod_Merc_Positions_Long_All, r.Prod_Merc_Positions_Short_All)

\* the argument after the call: df["net_commercial"] = ...
CotWithNet(t) ==
    [cols |-> t.cols \cup {"net_commercial"},
     rows |-> [k \in 1..Len(t.rows) |->
                 t.rows[k] @@ [net_commercial |-> NetCommercial(t.rows[k])]]]

\* the value returned: the two columns, the report date renamed to date
ComputeCotFeatures(t) ==
    [cols |-> {"date", "net_commercial"},
     rows |-> [k \in 1..Len(t.rows) |->
                 [date |-> t.rows[k].Report_Date,
                  net_commercial |-> NetCommercial(t.rows[k])]]]

BullBearSpread(r) == QSub(r.bullish, r.bearish)

\* the argument after the call: df["bull_bear_spread"] = ...
AaiiWithSpread(t) ==
    [cols |-> t.cols \cup {"bull_bear_spread"},
     rows |-> [k \in 1..Len(t.rows) |->
                 t.rows[k] @@ [bull_bear_spread |-> BullBearSpread(t.rows[k])]]]

\* the value returned: the five columns
ComputeAaiiFeatures(t) ==
    [cols |-> {"date", "bullish", "bearish", "neutral", "bull_bear_spread"},
     rows |-> [k \in 1..Len(t.rows) |->
                 [date |-> t.rows[k].date,
                  bullish |-> t.rows[k].bullish,
                  bearish |-> t.rows[k].bearish,
                  neutral |-> t.rows[k].neutral,
                  bull_bear_spread |-> BullBearSpread(t.rows[k])]]]

-----------------------------------------------------------------------------
(* generate_features.py: main (lines 135-155).                             *)

\* the columns of a right-hand row other than the key
ValuesOf(r) == [f \in (DOMAIN r) \ {"date"} |-> r[f]]

\* left.merge(right, on="date", how="left"): the left rows in order, each
\* once per right row of its date, or once with NaN when there is none
RECURSIVE MergeRows(_, _, _)
MergeRows(left, right, missing) ==
    IF left = <<>> THEN <<>>
    ELSE LET l == Head(left)
             matches == SelectSeq(right, LAMBDA r : r.date = l.date)
             joined == IF matches = <<>> THEN <<l @@ missing>>
                       ELSE [k \in 1..Len(matches) |-> l @@ ValuesOf(matches[k])]
         IN  joined \o MergeRows(Tail(left), right, missing)

MergeLeft(left, right) ==
    [cols |-> left.cols \cup right.cols,
     rows |-> MergeRows(left.rows, right.rows,
                        [f \in right.cols \ {"date"} |-> NaN])]

\* df.dropna(subset=["Close"])
DropNaClose(t) ==
    [cols |-> t.cols, rows |-> SelectSeq(t.rows, LAMBDA r : ~IsNa(r.Close))]

\* lines 136-138: the three loaders
GfLoad ==
    /\ program = "features"
    /\ pc = "load"
    /\ IsFeatureInput(raw_files')
    /\ IF ~raw_files'.cot.exists
       THEN /\ pc' = "error"
            /\ error' = "No files found for pattern: COT_*.csv"
            /\ price_df' = LoadPriceData(raw_files'.price)
            /\ UNCHANGED <<cot_df, aaii_df>>
       ELSE /\ pc' = "price_features"
            /\ error' = error
            /\ price_df' = LoadPriceData(raw_files'.price)
            /\ cot_df' = LoadCotData(raw_files'.cot)
            /\ aaii_df' = LoadAaiiData(raw_files'.aaii)
    /\ UNCHANGED <<pipeVars, program, out_file, signalVars, cot_features,
                   aaii_features, features>>

\* line 140
GfPriceFeatures ==
    /\ program = "features"
    /\ pc = "price_features"
    /\ price_df' = ComputePriceFeatures(price_df)
    /\ pc' = "cot_features"
    /\ UNCHANGED <<pipeVars, program, out_file, error, signalVars, raw_files, cot_df,
                   aaii_df, cot_features, aaii_features, features>>

\* line 141
GfCotFeatures ==
    /\ program = "features"
    /\ pc = "cot_features"
    /\ cot_features' = ComputeCotFeatures(cot_df)
    /\ cot_df' = CotWithNet(cot_df)
    /\ pc' = "aaii_features"
    /\ UNCHANGED <<pipeVars, program, out_file, error, signalVars, raw_files, price_df,
                   aaii_df, aaii_features, features>>

\* line 142
GfAaiiFeatures ==
    /\ program = "features"
    /\ pc = "aaii_features"
    /\ aaii_features' = ComputeAaiiFeatures(aaii_df)
    /\ aaii_df' = AaiiWithSpread(aaii_df)
    /\ pc' = "merge"
    /\ UNCHANGED <<pipeVars, program, out_file, error, signalVars, raw_files, price_df,
                   cot_df, cot_features, features>>

\* lines 145-149: the two merges and the drop of rows without Close
GfMerge ==
    /\ program = "features"
    /\ pc = "merge"
    /\ features' = DropNaClose(MergeLeft(MergeLeft(price_df, cot_features),
                                         aaii_features))
    /\ pc' = "save"
    /\ UNCHANGED <<pipeVars, program, out_file, error, signalVars, raw_files, price_df,
                   cot_df, aaii_df, cot_features, aaii_features>>

\* lines 152-155
GfSave ==
    /\ program = "features"
    /\ pc = "save"
    /\ out_file' = [written |-> TRUE, rows |-> features.rows]
    /\ pc' = "done"
    /\ UNCHANGED <<pipeVars, program, error, signalVars, featVars>>

-----------------------------------------------------------------------------
(* run_all.py: the orchestrator of the pipeline.                           *)

\* lines 77-82: the scripts main runs, in this order
PIPELINE == <<"fetch_market_data.py", "fetch_sentiment_data.py",
              "generate_features.py", "train_model.py",
              "predict_signals.py", "backtest.py">>

VISUALIZE == "visualize_signals.py"

\* config.yaml: absent, empty (yaml.safe_load gives None), or a mapping
NoConfigFile == [exists |-> FALSE, empty |-> FALSE, keys |-> <<>>]
EmptyConfigFile == [exists |-> TRUE, empty |-> TRUE, keys |-> <<>>]
ConfigMappings ==
    {<<>>,
     [k \in {"start_date"} |-> "2020-01-01"],
     [k \in {"start_date", "end_date", "min_probability"} |->
         CASE k = "start_date" -> "2020-01-01"
           [] k = "end_date" -> "2020-12-31"
           [] OTHER -> "0.7"]}
ConfigFiles ==
    {NoConfigFile, EmptyConfigFile}
    \cup {[exists |-> TRUE, empty |-> FALSE, keys |-> m] : m \in ConfigMappings}

\* config.get(key, default)
Get(mapping, key, default) ==
    IF key \in DOMAIN mapping THEN mapping[key] ELSE default

NoConfig == [start_date |-> "", end_date |-> "", min_prob |-> ""]
NoRunSummary == [written |-> FALSE, min_prob |-> "", date_range |-> <<"", "">>]

\* the answers to the two date prompts of the visualization
DateAnswers == {"", "2024-01-01"}

\* The return code of a script whose work failed.  fetch_market_data.py
\* catches every exception of its main and prints it (lines 52-71), so the
\* process ends normally; the other scripts let the exception end the
\* process.
FailureReturnCode(script) ==
    IF script = "fetch_market_data.py" THEN 0 ELSE 1

\* line 68: clean_output_dirs
CleanOutputDirs ==
    /\ program = "run_all"
    /\ pc = "clean"
    /\ pc' = "config"
    /\ UNCHANGED <<program, out_file, error, signalVars, featVars, pipeVars>>

\* lines 71-74: load_config and the three settings read from it
LoadConfig ==
    /\ program = "run_all"
    /\ pc = "config"
    /\ IF ~config_file.exists
       THEN /\ pc' = "exit"
            /\ error' = "config.yaml not found"
            /\ config' = config
       ELSE IF config_file.empty
       THEN /\ pc' = "exit"
            /\ error' = "AttributeError"
            /\ config' = config
       ELSE /\ pc' = "stage"
            /\ error' = error
            /\ config' = [start_date |-> Get(config_file.keys, "start_date", ""),
                          end_date   |-> Get(config_file.keys, "end_date", ""),
                          min_prob   |-> Get(config_file.keys,
                                             "min_probability", "0.5")]
    /\ UNCHANGED <<program, out_file, signalVars, featVars, config_file,
                   started, running, failed, viz_args, run_summary>>

\* run_script up to subprocess.run (lines 42-47): the script is launched
\* and main waits for it.  The scripts of PIPELINE are launched in turn, the
\* visualization after the prompt.
RunScript ==
    /\ program = "run_all"
    /\ pc \in {"stage", "visualize"}
    /\ LET script == IF pc = "visualize" THEN VISUALIZE
                     ELSE PIPELINE[Len(started) + 1]
       IN  /\ started' = Append(started, script)
           /\ running' = script
    /\ pc' = "child"
    /\ UNCHANGED <<program, out_file, error, signalVars, featVars, config_file,
                   config, failed, viz_args, run_summary>>

\* The child ends and run_script checks its return code (lines 47-52).  The
\* work of the child succeeds or fails (a download fails, an input file is
\* missing).
ScriptReturns ==
    /\ program = "run_all"
    /\ pc = "child"
    /\ \E fails \in BOOLEAN :
           LET returncode == IF fails THEN FailureReturnCode(running) ELSE 0
           IN  /\ failed' = IF fails THEN failed \cup {running} ELSE failed
               /\ IF returncode # 0
                  THEN /\ pc' = "exit"
                       /\ error' = running \o " failed"
                  ELSE /\ pc' = IF running = VISUALIZE THEN "summary"
                                ELSE IF Len(started) < Len(PIPELINE) THEN "stage"
                                ELSE "prompt"
                       /\ error' = error
    /\ running' = "none"
    /\ UNCHANGED <<program, out_file, signalVars, featVars, config_file,
                   config, started, viz_args, run_summary>>

\* lines 85-104: the prompt for the visualization and its two dates
PromptVisualize ==
    /\ program = "run_all"
    /\ pc = "prompt"
    /\ \E choice \in {"y", "n"}, vis_start \in DateAnswers, vis_end \in DateAnswers :
           IF choice = "y"
           THEN /\ viz_args' =
                       (IF vis_start # "" THEN <<"--start", vis_start>> ELSE <<>>)
                       \o (IF vis_end # "" THEN <<"--end", vis_end>> ELSE <<>>)
                /\ pc' = "visualize"
           ELSE /\ viz_args' = viz_args
                /\ pc' = "summary"
    /\ UNCHANGED <<program, out_file, error, signalVars, featVars, config_file,
                   config, started, running, failed, run_summary>>

\* lines 107-111: run_summary.txt
WriteRunSummary ==
    /\ program = "run_all"
    /\ pc = "summary"
    /\ run_summary' =
           [written |-> TRUE, min_prob |-> config.min_prob,
            date_range |->
                <<IF config.start_date # "" THEN config.start_date ELSE "ALL",
                  IF config.end_date # "" THEN config.end_date ELSE "ALL">>]
    /\ pc' = "done"
    /\ UNCHANGED <<program, out_file, error, signalVars, featVars, config_file,
                   config, started, running, failed, viz_args>>

PipelineIdle ==
    /\ config_file = NoConfigFile
    /\ config = NoConfig
    /\ started = <<>>
    /\ running = "none"
    /\ failed = {}
    /\ viz_args = <<>>
    /\ run_summary = NoRunSummary

-----------------------------------------------------------------------------
(* Specification of the two scripts that read the signals file.            *)

FeaturesIdle ==
    /\ raw_files = [price |-> NoSeries, cot |-> NoSeries, aaii |-> NoSeries]
    /\ price_df = EmptyTable
    /\ cot_df = EmptyTable
    /\ aaii_df = EmptyTable
    /\ cot_features = EmptyTable
    /\ aaii_features = EmptyTable
    /\ features = EmptyTable

Init ==
    /\ program \in {"backtest", "cli"}
    /\ signals_file = NoSignalsFile
    /\ HOLD_DAYS \in (IF program = "backtest" THEN HoldDaysValues
                      ELSE {HOLD_DAYS_DEFAULT})
    /\ pc = "load"
    /\ df = EmptyTable
    /\ i = 0
    /\ results = <<>>
    /\ cumulative_return = BQ(1, 1)
    /\ profitable_trades = 0
    /\ total_trades = 0
    /\ summary = NoSummary
    /\ out_file = NoOutput
    /\ error = "none"
    /\ min_prob = NaN
    /\ FeaturesIdle
    /\ PipelineIdle

Next ==
    \/ LoadLatestSignals
    \/ WalkRow
    \/ Summarize
    \/ SaveResults
    \/ CliLoad
    \/ CliFilter
    \/ CliExport

Spec == Init /\ [][Next]_vars

-----------------------------------------------------------------------------
(* Specification of backtest.py over signals files with arbitrary dates.   *)

\* the load of a file whose rows are out of order or repeat a date
LoadDatedSignals == LoadSignals(TRUE)

InitDates == Init /\ program = "backtest"

NextDates ==
    \/ LoadDatedSignals
    \/ WalkRow
    \/ Summarize
    \/ SaveResults

SpecDates == InitDates /\ [][NextDates]_vars

-----------------------------------------------------------------------------
(* Specification of generate_features.py.                                  *)

SignalsIdle ==
    /\ signals_file = NoSignalsFile
    /\ HOLD_DAYS = HOLD_DAYS_DEFAULT
    /\ df = EmptyTable
    /\ i = 0
    /\ results = <<>>
    /\ cumulative_return = BQ(1, 1)
    /\ profitable_trades = 0
    /\ total_trades = 0
    /\ summary = NoSummary
    /\ min_prob = NaN

InitFeatures ==
    /\ program = "features"
    /\ pc = "load"
    /\ out_file = NoOutput
    /\ error = "none"
    /\ SignalsIdle
    /\ FeaturesIdle
    /\ PipelineIdle

NextFeatures ==
    \/ GfLoad
    \/ GfPriceFeatures
    \/ GfCotFeatures
    \/ GfAaiiFeatures
    \/ GfMerge
    \/ GfSave

SpecFeatures == InitFeatures /\ [][NextFeatures]_vars

-----------------------------------------------------------------------------
(* Specification of run_all.py.                                            *)

InitPipeline ==
    /\ program = "run_all"
    /\ pc = "clean"
    /\ out_file = NoOutput
    /\ error = "none"
    /\ SignalsIdle
    /\ FeaturesIdle
    /\ config_file \in ConfigFiles
    /\ config = NoConfig
    /\ started = <<>>
    /\ running = "none"
    /\ failed = {}
    /\ viz_args = <<>>
    /\ run_summary = NoRunSummary

NextPipeline ==
    \/ CleanOutputDirs
    \/ LoadConfig
    \/ RunScript
    \/ ScriptReturns
    \/ PromptVisualize
    \/ WriteRunSummary

SpecPipeline == InitPipeline /\ [][NextPipeline]_vars

-----------------------------------------------------------------------------
(* Properties of the backtest and of the probability filter, checked       *)
(* under Spec.                                                             *)

Backtest == program = "backtest"

\* the walk is over and the run did not fail
WalkOver == Backtest /\ pc \in {"save", "done"}

\* the loaded table has every column the walk reads
AllColumns == df.cols = Columns

\* row j (0-based) of the loaded table
RowAt(j) == df.rows[j + 1]

\* the ledger holds a trade entered on row j (dates are distinct in df)
Opened(j) == \E k \in 1..Len(results) : results[k].entry_date = RowAt(j).date

\* prediction and probability present, probability at or above the threshold
Qualifies(row) ==
    /\ ~IsNa(row.prediction)
    /\ ~IsNa(row.probability)
    /\ Ge(row.probability, PROBABILITY_THRESHOLD)

\* C1: no trade record of the ledger has a missing prediction or a missing
\* probability (a row whose probability is missing never opens a trade).
C1_NoMissingSignalInLedger ==
    Backtest =>
        \A k \in 1..Len(results) :
            /\ ~IsNa(results[k].prediction)
            /\ ~IsNa(results[k].probability)

\* C2 as stated: once the walk is over, a qualifying row at index
\* length - hold_days has opened a trade and a qualifying row at index
\* length - hold_days + 1 has not.
C2_BoundaryAsStated ==
    (WalkOver /\ AllColumns) =>
        LET n == Len(df.rows)
        IN  /\ (n - HOLD_DAYS \in 0..(n - 1) /\ Qualifies(RowAt(n - HOLD_DAYS)))
                   => Opened(n - HOLD_DAYS)
            /\ (n - HOLD_DAYS + 1 \in 0..(n - 1)
                /\ Qualifies(RowAt(n - HOLD_DAYS + 1)))
                   => ~Opened(n - HOLD_DAYS + 1)

\* C2 amended: once the walk is over, a qualifying row at index
\* length - hold_days - 1 (the last row whose exit row exists) has opened a
\* trade, and a qualifying row at index length - hold_days has not.
C2_Boundary ==
    (WalkOver /\ AllColumns) =>
        LET n == Len(df.rows)
        IN  /\ (n - HOLD_DAYS - 1 \in 0..(n - 1)
                /\ Qualifies(RowAt(n - HOLD_DAYS - 1)))
                   => Opened(n - HOLD_DAYS - 1)
            /\ (n - HOLD_DAYS \in 0..(n - 1) /\ Qualifies(RowAt(n - HOLD_DAYS)))
                   => ~Opened(n - HOLD_DAYS)

\* A finished walk over a table whose rows at both boundary indices qualify.
C2_Witness ==
    /\ WalkOver
    /\ AllColumns
    /\ Len(df.rows) - HOLD_DAYS - 1 >= 0
    /\ Qualifies(RowAt(Len(df.rows) - HOLD_DAYS - 1))
    /\ Qualifies(RowAt(Len(df.rows) - HOLD_DAYS))
    /\ Opened(Len(df.rows) - HOLD_DAYS - 1)
    /\ ~Opened(Len(df.rows) - HOLD_DAYS)

\* the return the claim gives for a trade record, in percent:
\* (s * (exit - entry) / entry - transaction_cost) * 100
SignOf(prediction) == IF prediction = Q(0, 1) THEN Q(-1, 1) ELSE Q(1, 1)
SignedMove(t) ==
    QMul(SignOf(t.prediction),
         QDiv(QSub(t.exit_close, t.entry_close), t.entry_close))
StatedReturnPct(t) == QMul(QSub(SignedMove(t), Q(1, 1000)), Q(100, 1))

\* C3: every trade record with both closes present has
\* return_pct = (s * (exit - entry) / entry - 0.001) * 100, s = -1 for
\* prediction 0 and +1 otherwise; the cost lowers the return in either
\* direction; 1000 -> 1100 gives 9.9 for prediction 1, -10.1 for prediction 0.
C3_ReturnFormula ==
    Backtest =>
        \A k \in 1..Len(results) :
            LET t == results[k]
            IN  (~IsNa(t.entry_close) /\ ~IsNa(t.exit_close)) =>
                    /\ t.return_pct = StatedReturnPct(t)
                    /\ Lt(t.return_pct, QMul(SignedMove(t), Q(100, 1)))
                    /\ (t.entry_close = Q(1000, 1) /\ t.exit_close = Q(1100, 1))
                           => t.return_pct = (IF t.prediction = Q(1, 1)
                                              THEN Q(99, 10) ELSE Q(-101, 10))

\* A ledger with a bullish and a bearish trade over the move 1000 -> 1100.
C3_Witness ==
    /\ Backtest
    /\ \E k \in 1..Len(results) :
           /\ results[k].prediction = Q(1, 1)
           /\ results[k].entry_close = Q(1000, 1)
           /\ results[k].exit_close = Q(1100, 1)
           /\ results[k].return_pct = Q(99, 10)
    /\ \E k \in 1..Len(results) :
           /\ results[k].prediction = Q(0, 1)
           /\ results[k].entry_close = Q(1000, 1)
           /\ results[k].exit_close = Q(1100, 1)
           /\ results[k].return_pct = Q(-101, 10)

\* the product of (1 + r_k) over the first m records of the ledger, in
\* ledger order, from 1
RECURSIVE ProductOfLedger(_, _)
ProductOfLedger(rs, m) ==
    IF m = 0 THEN BQ(1, 1)
    ELSE BQMul(ProductOfLedger(rs, m - 1),
               ToBQ(QAdd(Q(1, 1), QDiv(rs[m].return_pct, Q(100, 1)))))

\* the compounding of the returns +10% and -5%, reported as 4.5
CompoundingExample ==
    BQSame(CumulativePct(Compound(Compound(BQ(1, 1), Q(10, 100)), Q(-5, 100)),
                         <<Q(10, 1), Q(-5, 1)>>),
           BQ(45, 10))

\* C4: the ledger is in ascending entry order; cumulative_return is the
\* product of (1 + r_k) over every trade in the ledger, from 1.0; once the
\* summary is computed with at least one trade, cumulative_pct is
\* (cumulative_return - 1) * 100; returns +10% and -5% give 4.5.
C4_Compounding ==
    (Backtest /\ pc \in {"walk", "save", "done"}) =>
        /\ CompoundingExample
        /\ \A k \in 1..(Len(results) - 1) :
               results[k].entry_date < results[k + 1].entry_date
        /\ BQSame(cumulative_return, ProductOfLedger(results, Len(results)))
        /\ (pc \in {"save", "done"} /\ results # <<>>) =>
               BQSame(BQAdd(BQDivInt(summary.cumulative_pct, 100), BQ(1, 1)),
                      ProductOfLedger(results, Len(results)))

\* A finished run with two bullish trades over 1000 -> 1100 whose holding
\* windows overlap: 1.099 * 1.099 = 1.207801, reported as 20.7801.
C4_Witness ==
    /\ WalkOver
    /\ Len(results) = 2
    /\ results[2].entry_date < results[1].exit_date
    /\ \A k \in 1..2 : results[k].return_pct = Q(99, 10)
    /\ BQSame(cumulative_return, BQ(1207801, 1000000))
    /\ BQSame(summary.cumulative_pct, BQ(207801, 10000))

ZeroSummary == [avg_return |-> Zero, cumulative_pct |-> Zero, win_rate |-> Zero]

\* C5: a run over a table with every column does not fail and no division
\* by zero is attempted; when it ends with no trade opened the summary is
\* total_trades = 0, profitable_trades = 0, win_rate = 0, avg_return = 0,
\* cumulative_pct = 0.
C5_EmptyRun ==
    Backtest =>
        /\ error # "ZeroDivisionError"
        /\ (signals_file.exists /\ signals_file.cols = Columns) => pc # "error"
        /\ (pc \in {"save", "done"} /\ results = <<>>) =>
               /\ total_trades = 0
               /\ profitable_trades = 0
               /\ summary = ZeroSummary

\* A finished run over a table longer than the holding period in which a
\* row of the walk is below the threshold and no row opened a trade.
C5_Witness ==
    /\ Backtest
    /\ pc = "done"
    /\ AllColumns
    /\ Len(df.rows) > HOLD_DAYS
    /\ RowAt(0).probability = Q(60, 100)
    /\ results = <<>>
    /\ summary = ZeroSummary
    /\ out_file.written

\* the records of the ledger with a strictly positive return
Wins == {k \in 1..Len(results) : Lt(Q(0, 1), results[k].return_pct)}

\* C6: at every step total_trades is the number of records appended and
\* profitable_trades the number of those with return > 0 strictly, so
\* 0 <= profitable_trades <= total_trades; the win rate reported is
\* profitable_trades / total_trades * 100, within [0, 100].
C6_WinCounting ==
    Backtest =>
        /\ total_trades = Len(results)
        /\ profitable_trades = Cardinality(Wins)
        /\ 0 <= profitable_trades
        /\ profitable_trades <= total_trades
        /\ (pc \in {"save", "done"} /\ total_trades > 0) =>
               /\ BQSame(summary.win_rate,
                         BQ(profitable_trades * 100, total_trades))
               /\ 0 <= profitable_trades * 100
               /\ profitable_trades * 100 <= 100 * total_trades

\* A finished run with a winning trade and a trade whose return is exactly
\* zero: one win out of two.
C6_Witness ==
    /\ WalkOver
    /\ total_trades = 2
    /\ profitable_trades = 1
    /\ \E k \in 1..Len(results) : results[k].return_pct = Q(0, 1)
    /\ \E k \in 1..Len(results) : Lt(Q(0, 1), results[k].return_pct)
    /\ BQSame(summary.win_rate, BQ(50, 1))

Thresholds == {Q(50, 100), Q(60, 100), Q(70, 100), Q(80, 100)}

\* the rows of the walk that open a trade at threshold t
OpeningRows(t) ==
    {j \in WalkRange(Len(df.rows), HOLD_DAYS) : ~Skips(RowAt(j), t)}

\* the rows of a table, as a set
RowValuesOf(rows) == {rows[k] : k \in 1..Len(rows)}

\* the table cli_trading_bot.py loads from the file it read
CliLoaded == SelectSeq(signals_file.rows, LAMBDA r : r.date # NaT)

\* the rows the viewer keeps at threshold t, after the date filter
CliKept(min_date, t) ==
    RowValuesOf(ProbabilityFilter(DateFilter(CliLoaded, min_date), t))

\* C7: for thresholds t1 < t2 the rows selected at t2 are among those
\* selected at t1, for the rows that open a trade in the backtest and for
\* the rows the viewer's probability filter keeps; the ledger and the
\* viewer's table hold the rows selected at the threshold in force.
C7_MonotonicFilter ==
    /\ (Backtest /\ pc \in {"walk", "save", "done"} /\ AllColumns) =>
           /\ \A t1, t2 \in Thresholds :
                  Lt(t1, t2) => OpeningRows(t2) \subseteq OpeningRows(t1)
           /\ pc \in {"save", "done"} =>
                  {results[k].entry_date : k \in 1..Len(results)}
                      = {RowAt(j).date : j \in OpeningRows(PROBABILITY_THRESHOLD)}
    /\ (program = "cli" /\ pc \in {"prompt", "export", "done"}
        /\ "probability" \in df.cols) =>
           /\ \A md \in MinDateValues : \A t1, t2 \in Thresholds :
                  Lt(t1, t2) => CliKept(md, t2) \subseteq CliKept(md, t1)
           /\ pc \in {"export", "done"} =>
                  \E md \in MinDateValues :
                      RowValuesOf(df.rows) = CliKept(md, min_prob)

\* A finished backtest in which a row without probability opened a trade
\* and a row of probability 0.60 did not: raising the threshold from 0.60
\* to 0.70 dropped a row.
C7_Witness ==
    /\ WalkOver
    /\ AllColumns
    /\ \E j \in OpeningRows(PROBABILITY_THRESHOLD) : IsNa(RowAt(j).probability)
    /\ \E j \in OpeningRows(Q(60, 100)) :
           /\ j \notin OpeningRows(PROBABILITY_THRESHOLD)
           /\ ~Opened(j)

\* the rows the walk has visited without skipping them, in ascending order
\* of their index (0-based); eligible is read as the walk's own test
\* (line 43): the prediction is present and the probability is not below
\* the threshold
RECURSIVE EligibleBefore(_)
EligibleBefore(j) ==
    IF j = 0 THEN <<>>
    ELSE IF Skips(RowAt(j - 1), PROBABILITY_THRESHOLD)
    THEN EligibleBefore(j - 1)
    ELSE Append(EligibleBefore(j - 1), j - 1)

Undefined(x) == x = BNaN

\* C12: a row whose close is missing opens no trade: no trade record has a
\* missing entry_close, and no return_pct of the ledger, nor the average
\* return or the cumulative return of the summary, is undefined.
C12_MissingCloseExcluded ==
    Backtest =>
        /\ \A k \in 1..Len(results) :
               /\ ~IsNa(results[k].entry_close)
               /\ ~IsNa(results[k].return_pct)
        /\ pc \in {"save", "done"} =>
               /\ ~Undefined(summary.avg_return)
               /\ ~Undefined(summary.cumulative_pct)

\* C13: whenever the walk begins (the load did not fail), the loaded table
\* is in ascending order of date and no two of its rows have the same
\* date, whatever the order and the dates of the rows of the file.
C13_SortedAndUniqueDates ==
    (Backtest /\ pc \in {"walk", "save", "done"}) =>
        \A k \in 1..(Len(df.rows) - 1) :
            df.rows[k].date < df.rows[k + 1].date

\* C10: a run over a signals table that lacks Close, prediction or
\* probability never finishes normally and never writes the ledger file.
C10_SchemaErrorNoLedger ==
    (Backtest /\ signals_file.exists /\ signals_file.cols # Columns) =>
        /\ pc # "done"
        /\ ~out_file.written

-----------------------------------------------------------------------------
(* Properties of the feature aggregation, checked under SpecFeatures.      *)

Features == program = "features"

\* the dates of the rows of a table, in row order
DatesOf(t) == [k \in 1..Len(t.rows) |-> t.rows[k].date]

\* the dates of the primary price series
PrimaryDates == {raw_files.price.rows[k].date : k \in 1..Len(raw_files.price.rows)}

\* every close of the primary price series is present
AllClosesPresent ==
    \A k \in 1..Len(raw_files.price.rows) : ~IsNa(raw_files.price.rows[k].Close)

\* C8: the merged feature table has exactly one row for each date of the
\* primary price series, in ascending date order, and no row for any other
\* date, whatever the auxiliary series contain.  Stated for price series
\* with every close present, where the drop of rows without Close removes
\* nothing.
C8_OneRowPerPrimaryDate ==
    (Features /\ pc \in {"save", "done"} /\ AllClosesPresent) =>
        LET dates == DatesOf(features)
        IN  /\ \A k \in 1..(Len(dates) - 1) : dates[k] < dates[k + 1]
            /\ {dates[k] : k \in 1..Len(dates)} = PrimaryDates

\* C9: for a price series with every close present, ma_10 and
\* volatility_10d are missing on exactly the first 9 rows of the
\* date-ordered table (every row of a series shorter than 10) and ma_20 on
\* exactly the first 19.
C9_RollingUndefinedRegion ==
    (Features /\ pc \in {"cot_features", "aaii_features", "merge", "save", "done"}
     /\ AllClosesPresent) =>
        /\ \A k \in 1..(Len(price_df.rows) - 1) :
               price_df.rows[k].date < price_df.rows[k + 1].date
        /\ \A k \in 1..Len(price_df.rows) :
               /\ IsNa(price_df.rows[k].ma_10) <=> k <= 9
               /\ IsNa(price_df.rows[k].volatility_10d) <=> k <= 9
               /\ IsNa(price_df.rows[k].ma_20) <=> k <= 19

\* The features of a series of 21 rows read in descending order, every
\* close present: ma_10 is defined from row 10 on, ma_20 from row 20 on.
C9_Witness ==
    /\ Features
    /\ pc = "cot_features"
    /\ AllClosesPresent
    /\ Len(price_df.rows) = 21
    /\ raw_files.price.rows[1].date = 21
    /\ IsNa(price_df.rows[9].ma_10)
    /\ price_df.rows[10].ma_10 = Q(1021, 10)
    /\ IsNa(price_df.rows[19].ma_20)
    /\ ~IsNa(price_df.rows[20].ma_20)
    /\ ~IsNa(price_df.rows[21].volatility_10d)

\* C14: compute_cot_features and compute_aaii_features leave the table
\* passed to them unchanged: after the call cot_df and aaii_df have the
\* columns and the values they had before it.  (compute_price_features
\* works on a sorted copy of its argument, and main keeps only the table it
\* returns.)
C14_PureFeatureOperations ==
    [][/\ GfCotFeatures => cot_df' = cot_df
       /\ GfAaiiFeatures => aaii_df' = aaii_df]_vars

-----------------------------------------------------------------------------
(* Properties of the orchestrator, checked under SpecPipeline.             *)

\* the scripts launched so far are the first scripts of PIPELINE, in its
\* order, followed at most by the visualization
InPipelineOrder ==
    \A k \in 1..Len(started) :
        IF k <= Len(PIPELINE) THEN started[k] = PIPELINE[k]
        ELSE k = Len(PIPELINE) + 1 /\ started[k] = VISUALIZE

\* C15: the scripts are launched in the order fetch_market_data,
\* fetch_sentiment_data, generate_features, train_model, predict_signals,
\* backtest, one at a time (the child waited for is the last one launched);
\* once the work of a script has failed, that script is the last one
\* launched and run_summary.txt is not written.
C15_FailFastOrdering ==
    program = "run_all" =>
        /\ InPipelineOrder
        /\ running # "none" => running = started[Len(started)]
        /\ \A s \in failed :
               /\ started[Len(started)] = s
               /\ ~run_summary.written

=============================================================================
